---- MODULE Spec2Model ----
(***************************************************************************)
(* Model of security_scanner/requirements_validator.py:                    *)
(* SecurityRequirementsValidator over a file tree.                         *)
(*                                                                         *)
(* Text is modelled as a sequence of tokens.  A token is a piece of text   *)
(* that no pattern of the catalog can match across its boundary: a line    *)
(* break, a blank, the comment marker, or a whole assignment such as       *)
(* api_key = "abcd1234".  A file's content is a sequence of tokens, a line *)
(* is the sequence of tokens between two line breaks.                      *)
(***************************************************************************)
EXTENDS Integers, Sequences, FiniteSets, TLC

\* Bound: the longest file content, in tokens, of the file a.py.
MaxLen == 3

-----------------------------------------------------------------------------
\* Tokens of text.
NL == "\n"
SP == " "
HASH == "#"
KEY == "api_key = 'abcd1234'"
B64 == "QUJDREVGR0hJSktMTU5PUFFSU1RVVldYWVowMTIzNDU2Nzg5"
DBGU == "DEBUG = True"
VSSL == "verify_ssl = false"

Alphabet == {NL, SP, HASH, KEY, B64, DBGU, VSSL}

\* The text of a root path of 50 letters and slashes, as str(target_path)
\* gives it and as the report file holds it on its "target" line.
LONGPATH == "srv/deployments/production/paymentsgateway/current"

\* The patterns of the catalog, named by their regular expression.
ReApiKey == "(?i)(api_key|apikey)\\s*[=:]\\s*[\"'][^\"']+[\"']"
RePassword == "(?i)(password|passwd|pwd)\\s*[=:]\\s*[\"'][^\"']+[\"']"
ReSecret == "(?i)(secret|token)\\s*[=:]\\s*[\"'][^\"']+[\"']"
ReBase64 == "[A-Za-z0-9+/]{40,}={0,2}"
ReDebugLower == "debug\\s*=\\s*true"
ReDebugUpper == "DEBUG\\s*=\\s*True"
ReSsl == "ssl\\s*=\\s*false"
ReVerifySsl == "verify_ssl\\s*=\\s*false"

\* The patterns a token matches when case is significant.
ExactMatches(tok) ==
    CASE tok = KEY -> {ReApiKey}
      [] tok = B64 -> {ReBase64}
      [] tok = LONGPATH -> {ReBase64}
      [] tok = DBGU -> {ReDebugUpper}
      [] tok = VSSL -> {ReSsl, ReVerifySsl}
      [] OTHER -> {}

\* The patterns a token matches when case is ignored.
FoldedMatches(tok) ==
    CASE tok = DBGU -> {ReDebugLower, ReDebugUpper}
      [] OTHER -> ExactMatches(tok)

\* The patterns that begin with the inline flag (?i).
InlineIgnoreCase == {ReApiKey, RePassword, ReSecret}

\* re.search(pattern, line, flags): the pattern matches somewhere in the
\* line.  ignorecase is the re.IGNORECASE flag of the call.
re_search(pattern, line, ignorecase) ==
    \E i \in DOMAIN line :
        pattern \in (IF ignorecase \/ pattern \in InlineIgnoreCase
                     THEN FoldedMatches(line[i])
                     ELSE ExactMatches(line[i]))

\* str.splitlines() of a content: the lines between line breaks; a line
\* break at the very end opens no further line.
RECURSIVE splitlines(_)
splitlines(content) ==
    IF content = << >> THEN << >>
    ELSE LET brk == {i \in DOMAIN content : content[i] = NL}
         IN  IF brk = {} THEN << content >>
             ELSE LET k == CHOOSE i \in brk : \A j \in brk : i <= j
                  IN  << SubSeq(content, 1, k - 1) >>
                      \o splitlines(SubSeq(content, k + 1, Len(content)))

\* str.strip() of a line: leading and trailing blanks removed.
RECURSIVE strip(_)
strip(line) ==
    IF line = << >> THEN line
    ELSE IF Head(line) = SP THEN strip(Tail(line))
    ELSE IF line[Len(line)] = SP THEN strip(SubSeq(line, 1, Len(line) - 1))
    ELSE line

\* str.startswith("#")
startswith_hash(line) == line # << >> /\ Head(line) = HASH

-----------------------------------------------------------------------------
\* _load_requirements: the catalog.
secrets_patterns ==
    << [pattern |-> ReApiKey, finding_type |-> "Hardcoded API key"],
       [pattern |-> RePassword, finding_type |-> "Hardcoded password"],
       [pattern |-> ReSecret, finding_type |-> "Hardcoded secret"],
       [pattern |-> ReBase64, finding_type |-> "Potential base64 encoded secret"] >>

insecure_patterns ==
    << [pattern |-> ReDebugLower, finding_type |-> "Debug mode enabled in production"],
       [pattern |-> ReDebugUpper, finding_type |-> "Debug mode enabled"],
       [pattern |-> ReSsl, finding_type |-> "SSL/TLS disabled"],
       [pattern |-> ReVerifySsl, finding_type |-> "SSL verification disabled"] >>

extensions == << ".py", ".js", ".ts", ".json", ".yaml", ".yml", ".env" >>

secrets_enabled == TRUE
insecure_enabled == TRUE

exclude == {".git", "node_modules", "__pycache__", ".venv", "venv"}

-----------------------------------------------------------------------------
\* The file tree.  An entry is a file or a directory below the root:
\*   dirs    the directory names between the root and the entry
\*   stem, suffix   the entry's name is stem \o suffix
\*   kind    "file" or "dir"
\*   mode    "ok": every read succeeds; "denied": every read raises;
\*           "flaky": a read succeeds or raises (transient I/O failure)
\*   content the file's text
Modes == {"ok", "denied", "flaky"}

Entry(dirs, stem, suffix, kind, mode, content) ==
    [dirs |-> dirs, stem |-> stem, suffix |-> suffix, kind |-> kind,
     mode |-> mode, content |-> content]

VARIABLES
    target_path,   \* self.target_path, as the sequence of its segments
    root_exists,   \* whether target_path names an existing directory
    tree,          \* the entries below the root, in traversal order
    findings,      \* self.findings
    returned,      \* the last two invocations of validate_requirements:
                   \* the report returned and the reads attempted
    runs           \* the last two completed runs of main: the output
                   \* argument, the report written, the total printed

vars == << target_path, root_exists, tree, findings, returned, runs >>

\* Path.parts of the path rglob yields for an entry.
parts(root, e) == root \o e.dirs \o << e.stem \o e.suffix >>

\* rglob("*"): every entry below the root, whatever its name.
rglob_AnyName(exists, t, ext) == IF exists THEN t ELSE << >>

\* Path.rglob("*" + ext): the entries below the root whose name ends with
\* ext, files and directories alike; nothing when the root does not exist.
rglob(exists, t, ext) ==
    IF exists THEN SelectSeq(t, LAMBDA e : e.suffix = ext) ELSE << >>

RECURSIVE extend_all(_, _, _)
extend_all(exists, t, exts) ==
    IF exts = << >> THEN << >>
    ELSE rglob(exists, t, Head(exts)) \o extend_all(exists, t, Tail(exts))

\* The filter looking only at the segments below the root.
not_excluded_BelowRoot(root, e) ==
    ~ \E i \in DOMAIN parts(<< >>, e) : parts(<< >>, e)[i] \in exclude

\* The filter of _get_scannable_files: no segment of the path is excluded.
not_excluded(root, e) ==
    ~ \E i \in DOMAIN parts(root, e) : parts(root, e)[i] \in exclude

\* _get_scannable_files
get_scannable_files(root, exists, t) ==
    SelectSeq(extend_all(exists, t, extensions),
              LAMBDA e : not_excluded(root, e))

\* str(file_path.relative_to(self.target_path))
RECURSIVE join(_)
join(segs) ==
    IF segs = << >> THEN "."
    ELSE IF Len(segs) = 1 THEN segs[1]
    ELSE segs[1] \o "/" \o join(Tail(segs))

relative_to(root, e) ==
    join(SubSeq(parts(root, e), Len(root) + 1, Len(parts(root, e))))

\* The inner loop reporting the last matching pattern instead of the first.
first_hit_Last(hits) ==
    IF hits = {} THEN 0 ELSE CHOOSE i \in hits : \A j \in hits : i >= j

\* The inner loop over the patterns of one category on one line, left by
\* break at the first hit.  hits are the indexes of the patterns whose test
\* holds on the line; the result is the index reported, 0 when there is none.
first_hit(hits) ==
    IF hits = {} THEN 0 ELSE CHOOSE i \in hits : \A j \in hits : i <= j

\* The secrets test with the comment check on the unstripped line.
secrets_hit_NoStrip(line, pattern) ==
    re_search(pattern, line, FALSE) /\ ~ startswith_hash(line)

secrets_hit(line, pattern) ==
    re_search(pattern, line, FALSE) /\ ~ startswith_hash(strip(line))

insecure_hit(line, pattern) == re_search(pattern, line, TRUE)

Finding(type, severity, file, line, requirement) ==
    [type |-> type, severity |-> severity, file |-> file, line |-> line,
     requirement |-> requirement]

\* The body of the try block of scan_for_secrets for one file that was read.
RECURSIVE secrets_of_lines(_, _, _)
secrets_of_lines(file, lines, line_num) ==
    IF lines = << >> THEN << >>
    ELSE LET k == first_hit({i \in DOMAIN secrets_patterns :
                                secrets_hit(Head(lines), secrets_patterns[i].pattern)})
         IN  (IF k = 0 THEN << >>
              ELSE << Finding(secrets_patterns[k].finding_type, "high", file,
                              line_num, "CRED-001: No hardcoded secrets") >>)
             \o secrets_of_lines(file, Tail(lines), line_num + 1)

\* scan_for_insecure_config without the break: one finding per matching
\* pattern.
RECURSIVE insecure_of_lines_NoBreak(_, _, _)
insecure_of_lines_NoBreak(file, lines, line_num) ==
    IF lines = << >> THEN << >>
    ELSE LET hits == SelectSeq(insecure_patterns,
                               LAMBDA r : insecure_hit(Head(lines), r.pattern))
         IN  [k \in DOMAIN hits |->
                 Finding(hits[k].finding_type, "medium", file, line_num,
                         "CONFIG-001: Secure default configuration")]
             \o insecure_of_lines_NoBreak(file, Tail(lines), line_num + 1)

\* The body of the try block of scan_for_insecure_config for one file.
RECURSIVE insecure_of_lines(_, _, _)
insecure_of_lines(file, lines, line_num) ==
    IF lines = << >> THEN << >>
    ELSE LET k == first_hit({i \in DOMAIN insecure_patterns :
                                insecure_hit(Head(lines), insecure_patterns[i].pattern)})
         IN  (IF k = 0 THEN << >>
              ELSE << Finding(insecure_patterns[k].finding_type, "medium", file,
                              line_num, "CONFIG-001: Secure default configuration") >>)
             \o insecure_of_lines(file, Tail(lines), line_num + 1)

\* scan_for_secrets with the try around the whole loop: the first read
\* that raises ends the scan.
RECURSIVE secrets_from_Abort(_, _, _, _)
secrets_from_Abort(root, files, ok, i) ==
    IF i > Len(files) \/ ~ ok[i] THEN << >>
    ELSE secrets_of_lines(relative_to(root, files[i]),
                          splitlines(files[i].content), 1)
         \o secrets_from_Abort(root, files, ok, i + 1)

\* scan_for_secrets: what it appends to self.findings.  ok[i] tells whether
\* read_text of the i-th scannable file succeeds; a read that raises is
\* swallowed by the except clause and the loop goes on to the next file.
RECURSIVE secrets_from(_, _, _, _)
secrets_from(root, files, ok, i) ==
    IF i > Len(files) THEN << >>
    ELSE (IF ok[i]
          THEN secrets_of_lines(relative_to(root, files[i]),
                                splitlines(files[i].content), 1)
          ELSE << >>)
         \o secrets_from(root, files, ok, i + 1)

scan_for_secrets(root, files, ok) ==
    IF ~ secrets_enabled THEN << >> ELSE secrets_from(root, files, ok, 1)

\* scan_for_insecure_config: what it appends to self.findings.
RECURSIVE insecure_from(_, _, _, _)
insecure_from(root, files, ok, i) ==
    IF i > Len(files) THEN << >>
    ELSE (IF ok[i]
          THEN insecure_of_lines(relative_to(root, files[i]),
                                 splitlines(files[i].content), 1)
          ELSE << >>)
         \o insecure_from(root, files, ok, i + 1)

scan_for_insecure_config(root, files, ok) ==
    IF ~ insecure_enabled THEN << >> ELSE insecure_from(root, files, ok, 1)

\* _count_by_severity
RECURSIVE count_from(_, _)
count_from(fs, counts) ==
    IF fs = << >> THEN counts
    ELSE count_from(Tail(fs),
                    [counts EXCEPT ![Head(fs).severity] = counts[Head(fs).severity] + 1])

\* _count_by_severity assigning 1 instead of adding 1.
count_by_severity_Assign(fs) ==
    [s \in {"high", "medium", "low"} |->
        IF \E i \in DOMAIN fs : fs[i].severity = s THEN 1 ELSE 0]

count_by_severity(fs) == count_from(fs, [high |-> 0, medium |-> 0, low |-> 0])

\* Report with the two outcomes of the status expression exchanged.
Report_StatusSwapped(root, fs) ==
    [target |-> join(root),
     total_findings |-> Len(fs),
     by_severity |-> count_by_severity(fs),
     requirements_validated |-> TRUE,
     findings |-> fs,
     status |-> IF fs = << >> THEN "REVIEW_REQUIRED" ELSE "PASS"]

\* The report validate_requirements builds (the timestamp left out).
Report(root, fs) ==
    [target |-> join(root),
     total_findings |-> Len(fs),
     by_severity |-> count_by_severity(fs),
     requirements_validated |-> TRUE,
     findings |-> fs,
     status |-> IF fs = << >> THEN "PASS" ELSE "REVIEW_REQUIRED"]

\* The outcomes read_text can have on the scannable files.
ReadOutcomes(files) ==
    {ok \in [DOMAIN files -> BOOLEAN] :
        \A i \in DOMAIN files :
            /\ files[i].kind = "dir" => ~ ok[i]
            /\ (files[i].kind = "file" /\ files[i].mode = "ok") => ok[i]
            /\ (files[i].kind = "file" /\ files[i].mode = "denied") => ~ ok[i]}

\* The reads one scan attempts, in order.
ReadLog(root, files, ok, scan) ==
    [i \in DOMAIN files |->
        [file |-> relative_to(root, files[i]), scan |-> scan, ok |-> ok[i]]]

\* validate_requirements without the reset: it goes on from self.findings.
keep_findings == findings

\* self.findings = [] at the start of validate_requirements.
reset_findings == << >>

\* validate_requirements
validate_requirements ==
    LET files == get_scannable_files(target_path, root_exists, tree)
    IN  \E ok1 \in ReadOutcomes(files), ok2 \in ReadOutcomes(files) :
            LET after_secrets == reset_findings \o scan_for_secrets(target_path, files, ok1)
                after_insecure ==
                    after_secrets \o scan_for_insecure_config(target_path, files, ok2)
                call == [report |-> Report(target_path, after_insecure),
                         reads |-> ReadLog(target_path, files, ok1, "secrets")
                                   \o ReadLog(target_path, files, ok2, "insecure")]
            IN  /\ findings' = after_insecure
                /\ returned' = IF returned = << >> THEN << call >>
                               ELSE << returned[Len(returned)], call >>
                /\ UNCHANGED << target_path, root_exists, tree, runs >>

-----------------------------------------------------------------------------
\* The trees the validator is constructed over.

\* Contents of at most n tokens.
RECURSIVE Contents(_)
Contents(n) ==
    IF n = 0 THEN {<< >>}
    ELSE LET shorter == Contents(n - 1)
         IN  shorter \cup {Append(c, t) : c \in {d \in shorter : Len(d) = n - 1},
                                          t \in Alphabet}

\* The file a.py at the top of the tree: a readable file of any content.
MainEntries ==
    {Entry(<< >>, "a", ".py", "file", "ok", c) : c \in Contents(MaxLen)}

\* What else the tree may hold: a file in an excluded directory, a second
\* scanned file in a subdirectory (readable or not), a file whose extension
\* is not scanned, a directory whose name ends with a scanned extension.
\* The files hold a secret on line 1 and, behind a comment marker, an
\* insecure setting on line 2.
SiblingContent == << KEY, NL, HASH, VSSL >>

SiblingEntries ==
    {Entry(<< "node_modules" >>, "b", ".js", "file", "ok", SiblingContent)}
    \cup {Entry(<< "sub" >>, "", ".env", "file", m, SiblingContent) : m \in Modes}
    \cup {Entry(<< >>, "notes", ".txt", "file", "ok", SiblingContent)}
    \cup {Entry(<< >>, "d", ".py", "dir", "ok", << >>)}

Trees ==
    {<< >>}
    \cup {<< m >> : m \in MainEntries}
    \cup {<< s >> : s \in SiblingEntries}
    \cup {<< s, m >> : s \in SiblingEntries, m \in MainEntries}

\* The roots: the current directory ".", a directory proj, and a directory
\* proj inside a directory named venv.
Roots == {<< >>, << "proj" >>, << "venv", "proj" >>}

\* __init__: the validator constructed over a root; the tree is empty when
\* the root does not exist.
Init ==
    /\ target_path \in Roots
    /\ root_exists \in BOOLEAN
    /\ tree \in IF root_exists THEN Trees ELSE {<< >>}
    /\ findings = << >>
    /\ returned = << >>
    /\ runs = << >>

Next == validate_requirements

Spec == Init /\ [][Next]_vars

-----------------------------------------------------------------------------
\* The command line: main, which builds a validator over the path argument,
\* calls generate_report and then validate_requirements once more for the
\* summary line.

\* json.dumps(results, indent=2) of one finding: one line per key.
dumps_finding(f) ==
    << "{", NL,
       "\"type\": ", f.type, NL,
       "\"severity\": ", f.severity, NL,
       "\"file\": ", f.file, NL,
       "\"line\": ", ToString(f.line), NL,
       "\"requirement\": ", f.requirement, NL,
       "}", NL >>

RECURSIVE dumps_findings(_)
dumps_findings(fs) ==
    IF fs = << >> THEN << >>
    ELSE dumps_finding(Head(fs)) \o dumps_findings(Tail(fs))

\* json.dumps(results, indent=2): the text of the report file.  The
\* timestamp is on line 2, the target on line 3.
dumps(report) ==
    << "{", NL,
       "\"timestamp\": ", "utcnow", NL,
       "\"target\": ", report.target, NL,
       "\"total_findings\": ", ToString(report.total_findings), NL,
       "\"by_severity\": {", NL,
       "\"high\": ", ToString(report.by_severity.high), NL,
       "\"medium\": ", ToString(report.by_severity.medium), NL,
       "\"low\": ", ToString(report.by_severity.low), NL,
       "}", NL,
       "\"requirements_validated\": ", "true", NL,
       "\"findings\": [", NL >>
    \o dumps_findings(report.findings)
    \o << "]", NL,
          "\"status\": ", report.status, NL,
          "}" >>

\* report_path.write_text(text) for report_path = target_path / output: the
\* file is created at the top of the tree, or its content replaced.
write_text(t, output, text) ==
    IF \E i \in DOMAIN t : t[i].dirs = << >> /\ t[i].stem = output.stem
                           /\ t[i].suffix = output.suffix
    THEN [i \in DOMAIN t |->
             IF t[i].dirs = << >> /\ t[i].stem = output.stem
                /\ t[i].suffix = output.suffix
             THEN [t[i] EXCEPT !.content = text]
             ELSE t[i]]
    ELSE Append(t, Entry(<< >>, output.stem, output.suffix, "file", "ok", text))

\* The values of the --output argument: the default, and a name whose
\* extension is not scanned.
Outputs ==
    {[stem |-> "security_validation_report", suffix |-> ".json"],
     [stem |-> "report", suffix |-> ".txt"]}

\* One validate_requirements of the validator main builds, over the tree t,
\* with the outcomes ok1 and ok2 of the reads of its two scans.
validate_call(t, ok1, ok2) ==
    LET files == get_scannable_files(target_path, root_exists, t)
        after_secrets == << >> \o scan_for_secrets(target_path, files, ok1)
        after_insecure ==
            after_secrets \o scan_for_insecure_config(target_path, files, ok2)
    IN  [report |-> Report(target_path, after_insecure),
         reads |-> ReadLog(target_path, files, ok1, "secrets")
                   \o ReadLog(target_path, files, ok2, "insecure")]

\* main with the output argument: generate_report validates and writes the
\* report under the root; a missing root makes write_text raise and ends the
\* run; otherwise the summary validates again and prints its total.
main(output) ==
    LET files == get_scannable_files(target_path, root_exists, tree)
    IN  \E ok1 \in ReadOutcomes(files), ok2 \in ReadOutcomes(files) :
            LET first == validate_call(tree, ok1, ok2)
                written == write_text(tree, output, dumps(first.report))
                again == get_scannable_files(target_path, root_exists, written)
            IN  IF ~ root_exists
                THEN /\ findings' = first.report.findings
                     /\ returned' = << first >>
                     /\ UNCHANGED << target_path, root_exists, tree, runs >>
                ELSE \E ok3 \in ReadOutcomes(again), ok4 \in ReadOutcomes(again) :
                        LET second == validate_call(written, ok3, ok4)
                            run == [output |-> output,
                                    report |-> first.report,
                                    printed |-> second.report.total_findings]
                        IN  /\ findings' = second.report.findings
                            /\ returned' = << first, second >>
                            /\ tree' = written
                            /\ runs' = IF runs = << >> THEN << run >>
                                       ELSE << runs[Len(runs)], run >>
                            /\ UNCHANGED << target_path, root_exists >>

\* The root srv/deployments/production/paymentsgateway/current.
LongRoot == << "srv", "deployments", "production", "paymentsgateway", "current" >>

\* The trees of the command line runs: every file readable, a.py of at
\* most one token.
ReadableTrees ==
    {t \in Trees :
        \A i \in DOMAIN t :
            /\ t[i].kind = "file" => t[i].mode = "ok"
            /\ t[i].content \in {<< >>, SiblingContent}
                                    \cup {<< tok >> : tok \in Alphabet}}

InitCLI ==
    /\ target_path \in Roots \cup {LongRoot}
    /\ root_exists \in BOOLEAN
    /\ tree \in IF root_exists THEN ReadableTrees ELSE {<< >>}
    /\ findings = << >>
    /\ returned = << >>
    /\ runs = << >>

NextCLI == \E output \in Outputs : main(output)

SpecCLI == InitCLI /\ [][NextCLI]_vars

-----------------------------------------------------------------------------
\* Vocabulary of the properties.

CRED == "CRED-001: No hardcoded secrets"
CONFIG == "CONFIG-001: Secure default configuration"

\* The invocations of validate_requirements on record.
Calls == {returned[i] : i \in DOMAIN returned}

\* The entry of the tree whose path relative to the root is file.
EntryOf(file) == CHOOSE e \in {tree[i] : i \in DOMAIN tree} :
                     relative_to(target_path, e) = file

\* The files the selector is to yield: below an existing root, with a
\* scanned extension and no excluded segment in the path.
Selected(e) ==
    /\ root_exists
    /\ \E k \in DOMAIN extensions : e.suffix = extensions[k]
    /\ \A k \in DOMAIN parts(target_path, e) : parts(target_path, e)[k] \notin exclude

\* The files an invocation read successfully for one scan.
ReadOk(call, scan) ==
    {call.reads[i].file : i \in {j \in DOMAIN call.reads :
                                    call.reads[j].scan = scan /\ call.reads[j].ok}}

\* The selected files that were readable when the scan read them.
SelectedRead(call, scan) ==
    {relative_to(target_path, e) :
        e \in {d \in {tree[i] : i \in DOMAIN tree} :
                  /\ Selected(d)
                  /\ d.kind = "file"
                  /\ \/ d.mode = "ok"
                     \/ d.mode = "flaky"
                        /\ relative_to(target_path, d) \in ReadOk(call, scan)}}

\* The lines of a file.
LinesOf(file) == splitlines(EntryOf(file).content)

\* Some secrets rule matches the line and the line is not a comment.
SecretsMatch(line) ==
    /\ \E k \in DOMAIN secrets_patterns :
           re_search(secrets_patterns[k].pattern, line, FALSE)
    /\ ~ startswith_hash(strip(line))

\* Some insecure-config rule matches the line.
InsecureMatch(line) ==
    \E k \in DOMAIN insecure_patterns :
        re_search(insecure_patterns[k].pattern, line, TRUE)

\* The triples (file, line number, requirement) an invocation must report.
Expected(call) ==
    UNION {{<< f, n, CRED >> :
               n \in {m \in DOMAIN LinesOf(f) : SecretsMatch(LinesOf(f)[m])}} :
           f \in SelectedRead(call, "secrets")}
    \cup
    UNION {{<< f, n, CONFIG >> :
               n \in {m \in DOMAIN LinesOf(f) : InsecureMatch(LinesOf(f)[m])}} :
           f \in SelectedRead(call, "insecure")}

\* The triple a finding stands for.
TripleOf(f) == << f.file, f.line, f.requirement >>

-----------------------------------------------------------------------------
\* C1: every report returned by validate_requirements has status "PASS" if
\* its findings list is empty and "REVIEW_REQUIRED" otherwise, whatever the
\* tree and whatever calls came before.
C1_StatusIffEmpty ==
    \A c \in Calls :
        /\ c.report.status \in {"PASS", "REVIEW_REQUIRED"}
        /\ c.report.status = "PASS" <=> c.report.findings = << >>

\* A second call returned REVIEW_REQUIRED after a first one did.
C1_Witness ==
    /\ Len(returned) = 2
    /\ returned[1].report.status = "REVIEW_REQUIRED"
    /\ returned[2].report.status = "REVIEW_REQUIRED"
    /\ returned[2].report.findings # << >>

\* C2: in every report, by_severity.high is the number of secrets findings,
\* by_severity.medium the number of insecure-config findings, by_severity.low
\* is 0, and total_findings is the length of findings and the sum of the
\* three counts.
C2_SeverityCounts ==
    \A c \in Calls :
        LET r == c.report
            n(req) == Cardinality({i \in DOMAIN r.findings :
                                      r.findings[i].requirement = req})
        IN  /\ r.by_severity.high = n(CRED)
            /\ r.by_severity.medium = n(CONFIG)
            /\ r.by_severity.low = 0
            /\ r.total_findings = Len(r.findings)
            /\ r.total_findings =
                   r.by_severity.high + r.by_severity.medium + r.by_severity.low

\* A report with two secrets findings and one insecure-config finding.
C2_Witness ==
    \E c \in Calls :
        /\ c.report.by_severity.high = 2
        /\ c.report.by_severity.medium = 1

\* C3: the findings of an invocation hold exactly one entry for each triple
\* (file selected and read, line number, category) where a rule of the
\* category matches the line and the line is not suppressed, with the
\* file's path relative to the root and the 1-based line number; no other
\* triple has a finding and none has two.  A file counts as read for a
\* category when the read of that category's scan succeeded.
C3_OneFindingPerTriple ==
    \A c \in Calls :
        LET fs == c.report.findings
        IN  /\ \A t \in Expected(c) :
                   Cardinality({i \in DOMAIN fs : TripleOf(fs[i]) = t}) = 1
            /\ \A i \in DOMAIN fs : TripleOf(fs[i]) \in Expected(c)

\* An invocation reported a line on which two insecure-config rules match,
\* and a secret on a line other than the first.
C3_Witness ==
    \E c \in Calls :
        \E i, j \in DOMAIN c.report.findings :
            /\ c.report.findings[i].requirement = CONFIG
            /\ re_search(ReVerifySsl,
                         LinesOf(c.report.findings[i].file)[c.report.findings[i].line],
                         TRUE)
            /\ c.report.findings[j].requirement = CRED
            /\ c.report.findings[j].line > 1

\* C4: when several rules of one category match a line, the finding for
\* that line and category carries the label of the first matching rule in
\* catalog order; no later rule is reported for the line.
C4_FirstRuleWins ==
    \A c \in Calls :
        \A i \in DOMAIN c.report.findings :
            LET f == c.report.findings[i]
                line == LinesOf(f.file)[f.line]
                patterns == IF f.requirement = CRED THEN secrets_patterns
                                                    ELSE insecure_patterns
                matches(k) == re_search(patterns[k].pattern, line,
                                        f.requirement = CONFIG)
            IN  \E k \in DOMAIN patterns :
                    /\ f.type = patterns[k].finding_type
                    /\ matches(k)
                    /\ \A j \in 1..(k - 1) : ~ matches(j)

\* A line holding a base64 run before an api_key assignment was reported
\* as "Hardcoded API key".
C4_Witness ==
    \E c \in Calls :
        \E i \in DOMAIN c.report.findings :
            LET f == c.report.findings[i]
                line == LinesOf(f.file)[f.line]
            IN  /\ f.type = "Hardcoded API key"
                /\ Len(line) >= 2
                /\ line[1] = B64
                /\ line[2] = KEY

\* C5: comment suppression is scoped to the secrets category: a line whose
\* stripped form starts with '#' never yields a secrets finding, and it
\* yields an insecure-config finding whenever an insecure-config rule
\* matches it.
C5_CommentScopedToSecrets ==
    \A c \in Calls :
        \A e \in {tree[i] : i \in DOMAIN tree} :
            LET f == relative_to(target_path, e)
                lines == splitlines(e.content)
                reported(n, req) ==
                    \E i \in DOMAIN c.report.findings :
                        TripleOf(c.report.findings[i]) = << f, n, req >>
            IN  \A n \in DOMAIN lines :
                    startswith_hash(strip(lines[n])) =>
                        /\ ~ reported(n, CRED)
                        /\ (f \in SelectedRead(c, "insecure") /\ InsecureMatch(lines[n]))
                               => reported(n, CONFIG)

\* A comment line holding an api_key assignment and a DEBUG
\* setting: reported for insecure-config, not for secrets.
C5_Witness ==
    \E c \in Calls :
        /\ \E i \in DOMAIN tree : tree[i].content = << HASH, KEY, DBGU >>
        /\ Len(c.report.findings) = 1
        /\ c.report.findings[1].requirement = CONFIG
        /\ c.report.findings[1].type = "Debug mode enabled in production"

\* C6: for every root, a file whose path has a segment in the exclusion set
\* produces no finding, and a readable file with a scanned extension below
\* the root, outside every excluded directory, holding a matching
\* unsuppressed secret line produces a finding.
C6_Exclusion ==
    \A c \in Calls :
        \A e \in {tree[i] : i \in DOMAIN tree} :
            LET f == relative_to(target_path, e)
                p == parts(target_path, e)
                excluded == \E k \in DOMAIN p : p[k] \in exclude
                lines == splitlines(e.content)
            IN  /\ excluded =>
                       \A i \in DOMAIN c.report.findings :
                           c.report.findings[i].file # f
                /\ ( /\ ~ excluded
                     /\ root_exists
                     /\ e.kind = "file"
                     /\ e.mode = "ok"
                     /\ \E k \in DOMAIN extensions : e.suffix = extensions[k]
                     /\ \E n \in DOMAIN lines : SecretsMatch(lines[n]) )
                   => \E i \in DOMAIN c.report.findings :
                          /\ c.report.findings[i].file = f
                          /\ c.report.findings[i].requirement = CRED

\* The same secret in node_modules/b.js and in a.py: a.py is reported,
\* node_modules/b.js is not.
C6_Witness ==
    \E c \in Calls :
        /\ Len(tree) = 2
        /\ tree[1].dirs = << "node_modules" >>
        /\ tree[2].content = << KEY >>
        /\ c.report.total_findings = 1
        /\ c.report.findings[1].file = "a.py"

\* C7: two calls of validate_requirements over an unchanged tree (the same
\* files, the same contents, the same files readable) return the same
\* ordered findings and the same total_findings: nothing of the earlier
\* call is left in the later report.
C7_Idempotent ==
    (Len(returned) = 2 /\ returned[1].reads = returned[2].reads) =>
        /\ returned[2].report.findings = returned[1].report.findings
        /\ returned[2].report.total_findings = returned[1].report.total_findings

\* Two calls with the same reads, each returning three findings.
C7_Witness ==
    /\ Len(returned) = 2
    /\ returned[1].reads = returned[2].reads
    /\ returned[1].report.total_findings = 3
    /\ returned[2].report.total_findings = 3

\* The files of an invocation whose every read raised.
Unread(call) ==
    {call.reads[i].file : i \in DOMAIN call.reads}
        \ (ReadOk(call, "secrets") \cup ReadOk(call, "insecure"))

\* The findings of an invocation had the unread files not been in the tree,
\* every other read having the outcome it had.
WithoutUnread(call) ==
    LET rest == SelectSeq(tree, LAMBDA e :
                    relative_to(target_path, e) \notin Unread(call))
        files == get_scannable_files(target_path, root_exists, rest)
        ok(scan) == [j \in DOMAIN files |->
                        relative_to(target_path, files[j]) \in ReadOk(call, scan)]
    IN  scan_for_secrets(target_path, files, ok("secrets"))
        \o scan_for_insecure_config(target_path, files, ok("insecure"))

\* C8: a file that cannot be read contributes no finding and does not end
\* the scan: the report is returned, and its findings are those of the scan
\* of the tree without the unreadable file.
C8_UnreadableSkipped ==
    \A c \in Calls :
        /\ \A i \in DOMAIN c.report.findings :
               c.report.findings[i].file \notin Unread(c)
        /\ c.report.findings = WithoutUnread(c)

\* The directory d.py, read before a.py, could not be read, and a.py was
\* reported.
C8_Witness ==
    \E c \in Calls :
        /\ "d.py" \in Unread(c)
        /\ \E i \in DOMAIN c.report.findings :
               /\ c.report.findings[i].file = "a.py"
               /\ c.report.findings[i].requirement = CRED

\* C9: on a root that does not exist, or that holds no file with a scanned
\* extension, validate_requirements returns total_findings 0, no findings
\* and status "PASS".
C9_NothingToScan ==
    \A c \in Calls :
        ( \/ ~ root_exists
          \/ ~ \E i \in DOMAIN tree :
                   /\ tree[i].kind = "file"
                   /\ \E k \in DOMAIN extensions : tree[i].suffix = extensions[k] )
        => /\ c.report.total_findings = 0
           /\ c.report.findings = << >>
           /\ c.report.status = "PASS"

\* A root holding only notes.txt, with a secret in it, was validated.
C9_Witness ==
    /\ returned # << >>
    /\ Len(tree) = 1
    /\ tree[1].suffix = ".txt"
    /\ \E n \in DOMAIN splitlines(tree[1].content) :
           SecretsMatch(splitlines(tree[1].content)[n])

\* C10: within one invocation each file is opened for reading at most once,
\* a file whose read failed is not read again, and so a file is scanned for
\* every enabled category or for none.
C10_ReadAtMostOnce ==
    \A c \in Calls :
        /\ \A f \in {c.reads[i].file : i \in DOMAIN c.reads} :
               Cardinality({i \in DOMAIN c.reads : c.reads[i].file = f}) <= 1
        /\ ReadOk(c, "secrets") = ReadOk(c, "insecure")

\* C11: the findings are appended file by file, within a file by ascending
\* line number, within a line category by category: the findings of one
\* file are contiguous, and a secrets finding and an insecure-config
\* finding on the same line of the same file are adjacent.
C11_FileByFile ==
    \A c \in Calls :
        LET fs == c.report.findings
        IN  \A i, j \in DOMAIN fs :
                (i < j /\ fs[i].file = fs[j].file) =>
                    /\ \A k \in i..j : fs[k].file = fs[i].file
                    /\ fs[i].line <= fs[j].line
                    /\ fs[i].line = fs[j].line => j = i + 1

\* C12: in a run of main the total printed equals the total_findings of the
\* report file the run wrote, and a second run with the same arguments on
\* the tree the first run left writes a report with the same findings.
C12_SummaryMatchesReport ==
    /\ \A i \in DOMAIN runs : runs[i].printed = runs[i].report.total_findings
    /\ (Len(runs) = 2 /\ runs[1].output = runs[2].output) =>
           runs[2].report.findings = runs[1].report.findings

====
